---- MODULE Spec2Model ----
(***************************************************************************)
(* Model of scripts/pdf_to_text.py: the batch driver main() and the        *)
(* single-file converter extract_text_from_pdf().                          *)
(*                                                                         *)
(* File names, page texts and file contents are sequences of one-character *)
(* strings, so that the stem, the glob match, the sort order and the join  *)
(* are computed the way pathlib and str.join compute them (POSIX flavour:  *)
(* case-sensitive match, code-point order).                                *)
(***************************************************************************)
EXTENDS Naturals, Sequences, FiniteSets

VARIABLES
    inputDirExists,    \* args.pdf_dir.is_dir()
    dirEntries,        \* the names present in pdf_dir
    pdfDir,            \* name -> the page texts of that document
    outDirExists,      \* args.output_dir exists
    outFiles,          \* target name -> its content, or NoFile
    overwrite,         \* args.overwrite
    page_break,        \* args.page_break
    pc,                \* position inside main / extract_text_from_pdf
    ret,               \* <<main's return value>>, NoRet until it returns
    pdf_files,         \* main: the sorted scan
    idx,               \* main: position of the for loop in pdf_files
    page_text_chunks,  \* extract_text_from_pdf: collected chunks
    page_index,        \* extract_text_from_pdf: pages enumerated so far
    openHandles,       \* names whose fitz document is open
    skipped,           \* "[skip]" lines of this run (the sources skipped)
    warned,            \* "[warn]" lines of this run (<<name, page index>>)
    converted,         \* "[done]" lines of this run (source names)
    errors,            \* "[error]" lines of this run (the sources that failed)
    raised,            \* the step at which the exception last caught was raised
    attempted,         \* history: names handed to extract_text_from_pdf
    opened,            \* history: names handed to fitz.open
    fsAtStart,         \* history: output directory when main began
    fsAtCall,          \* history: output directory when the current call began
    rerun              \* history: an earlier run went through its batch

vars == <<inputDirExists, dirEntries, pdfDir, outDirExists, outFiles,
          overwrite, page_break, pc, ret, pdf_files, idx, page_text_chunks,
          page_index, openHandles, skipped, warned, converted, errors,
          raised, attempted, opened, fsAtStart, fsAtCall, rerun>>

----------------------------------------------------------------------------
(* Bounds *)

\* Largest number of pages of a document that is alone in its directory.
MaxPages == 3

----------------------------------------------------------------------------
(* Values *)

\* The value of outFiles at a path where there is no file (no content is
\* this sequence: contents are made of single characters).
NoFile == <<"NoFile">>

\* main has not returned.
NoRet == <<>>

\* No exception was caught yet.
NoStep == "none"

\* Directory entries the scan may meet.  ".pdf" has no suffix in pathlib,
\* so ".pdf" and ".pdf.pdf" share the stem ".pdf".
Names ==
    { <<".", "p", "d", "f">>,
      <<".", "p", "d", "f", ".", "p", "d", "f">>,
      <<"a", ".", "p", "d", "f">>,
      <<"a", ".", "t", "x", "t">> }

\* Texts page.get_text("text") may return: empty, whitespace-only, or not.
PageTexts == { <<>>, <<" ">>, <<"H">> }

Whitespace == { " ", "\n", "\t" }

\* Content put at a target from outside the program.
ExternalContent == <<"X">>

\* Code points of the characters of Names.
Ord(c) ==
    CASE c = "." -> 46
      [] c = "a" -> 97
      [] c = "d" -> 100
      [] c = "f" -> 102
      [] c = "p" -> 112
      [] c = "t" -> 116
      [] c = "x" -> 120

Range(s) == { s[k] : k \in 1..Len(s) }

SeqsUpTo(S, n) == UNION { [1..k -> S] : k \in 0..n }

----------------------------------------------------------------------------
(* pathlib and str operations used by the script *)

DotPdf == <<".", "p", "d", "f">>
DotTxt == <<".", "t", "x", "t">>

\* Position of the last "." of a name, 0 when there is none (str.rfind + 1).
LastDot(name) ==
    LET dots == { k \in 1..Len(name) : name[k] = "." }
    IN  IF dots = {} THEN 0
        ELSE CHOOSE k \in dots : \A m \in dots : m <= k

\* PurePath.stem: the name without its suffix; a name whose only "." is
\* leading or trailing has no suffix.
Stem(name) ==
    LET p == LastDot(name)
    IN  IF 1 < p /\ p < Len(name) THEN SubSeq(name, 1, p - 1) ELSE name

\* fnmatch of a name against "*.pdf" ("*" also matches the empty string and
\* a leading dot in pathlib's glob).
GlobMatch(name) ==
    /\ Len(name) >= Len(DotPdf)
    /\ SubSeq(name, Len(name) - Len(DotPdf) + 1, Len(name)) = DotPdf

\* args.pdf_dir.glob("*.pdf")
Glob == { n \in dirEntries : GlobMatch(n) }

\* Order of two paths of one directory: their names, by code point.
PathLess(a, b) ==
    \E k \in 1..(Len(a) + 1) :
        /\ k <= Len(b)
        /\ \A m \in 1..(k - 1) : a[m] = b[m]
        /\ \/ k = Len(a) + 1
           \/ k <= Len(a) /\ Ord(a[k]) < Ord(b[k])

RECURSIVE SortedSeq(_)
\* sorted(...) of a set of distinct paths
SortedSeq(S) ==
    IF S = {} THEN <<>>
    ELSE LET least == CHOOSE x \in S : \A y \in S \ {x} : PathLess(x, y)
         IN  <<least>> \o SortedSeq(S \ {least})

\* args.output_dir / f"{pdf_path.stem}.txt"
OutputPath(name) == Stem(name) \o DotTxt

Targets == { OutputPath(n) : n \in Names }

\* not text.strip()
IsBlank(text) == \A k \in 1..Len(text) : text[k] \in Whitespace

\* the separator chosen by insert_page_break
Separator(pageBreak) ==
    IF pageBreak THEN <<"\n", "\n", "-", "-", "-", "\n", "\n">> ELSE <<"\n">>

RECURSIVE JoinEach(_, _)
\* Variant: the separator follows every chunk, the last one too.
JoinEach(chunks, sep) ==
    IF Len(chunks) = 0 THEN <<>>
    ELSE chunks[1] \o sep \o JoinEach(Tail(chunks), sep)

RECURSIVE Join(_, _)
\* separator.join(chunks)
Join(chunks, sep) ==
    IF Len(chunks) = 0 THEN <<>>
    ELSE IF Len(chunks) = 1 THEN chunks[1]
    ELSE chunks[1] \o sep \o Join(Tail(chunks), sep)

----------------------------------------------------------------------------
(* State *)

Docs(n) == SeqsUpTo(PageTexts, n)

\* The one-page documents.
OnePage == { <<t>> : t \in PageTexts }

\* The documents an entry may be, by the entries of its directory: up to
\* MaxPages pages when it is alone, one page when it has company.
DocsIn(entries) ==
    IF Cardinality(entries) <= 1 THEN Docs(MaxPages) ELSE OnePage

\* The input directories considered: any set of entries, every "*.pdf"
\* entry a document (the other entries are never opened).
InputDirs ==
    UNION { { d \in [entries -> DocsIn(entries) \cup {<<>>}] :
                \A n \in entries : IF GlobMatch(n) THEN d[n] \in DocsIn(entries)
                                   ELSE d[n] = <<>> } :
            entries \in SUBSET Names }

cur == pdf_files[idx]

target == OutputPath(cur)

Snapshot == [dir |-> outDirExists, files |-> outFiles]

Init ==
    /\ inputDirExists \in BOOLEAN
    /\ pdfDir \in InputDirs
    /\ dirEntries = DOMAIN pdfDir
    /\ inputDirExists = FALSE => dirEntries = {}
    /\ outDirExists = FALSE
    /\ outFiles = [t \in Targets |-> NoFile]
    /\ overwrite = FALSE
    /\ page_break = FALSE
    /\ pc = "idle"
    /\ ret = NoRet
    /\ pdf_files = <<>>
    /\ idx = 1
    /\ page_text_chunks = <<>>
    /\ page_index = 0
    /\ openHandles = {}
    /\ skipped = <<>>
    /\ warned = <<>>
    /\ converted = <<>>
    /\ errors = <<>>
    /\ raised = NoStep
    /\ attempted = <<>>
    /\ opened = <<>>
    /\ fsAtStart = [dir |-> FALSE, files |-> [t \in Targets |-> NoFile]]
    /\ fsAtCall = [dir |-> FALSE, files |-> [t \in Targets |-> NoFile]]
    /\ rerun = FALSE

inputVars == <<inputDirExists, dirEntries, pdfDir>>
argVars == <<overwrite, page_break>>
fsVars == <<outDirExists, outFiles>>
pageVars == <<page_text_chunks, page_index>>
logVars == <<skipped, warned, converted, errors, raised>>

----------------------------------------------------------------------------
(* main *)

\* parse_args(): the two flags are the caller's choice.
ParseArgs ==
    /\ pc = "idle"
    /\ overwrite' \in BOOLEAN
    /\ page_break' \in BOOLEAN
    /\ pc' = "main"
    /\ fsAtStart' = Snapshot
    /\ fsAtCall' = Snapshot
    /\ UNCHANGED <<inputVars, fsVars, ret, pdf_files, idx, pageVars,
                   openHandles, logVars, attempted, opened, rerun>>

\* if not args.pdf_dir.is_dir(): return 1
DirNotFound ==
    /\ pc = "main"
    /\ ~inputDirExists
    /\ ret' = <<1>>
    /\ pc' = "done"
    /\ UNCHANGED <<inputVars, argVars, fsVars, pdf_files, idx, pageVars,
                   openHandles, logVars, attempted, opened, fsAtStart,
                   fsAtCall, rerun>>

\* Variant: the output directory is made before the scan is looked at.
NoPdfFilesMkdir ==
    /\ pc = "main"
    /\ inputDirExists
    /\ SortedSeq(Glob) = <<>>
    /\ pdf_files' = SortedSeq(Glob)
    /\ outDirExists' = TRUE
    /\ ret' = <<1>>
    /\ pc' = "done"
    /\ UNCHANGED <<inputVars, argVars, outFiles, idx, pageVars, openHandles,
                   logVars, attempted, opened, fsAtStart, fsAtCall, rerun>>

\* pdf_files = sorted(glob); if not pdf_files: return 1
NoPdfFiles ==
    /\ pc = "main"
    /\ inputDirExists
    /\ SortedSeq(Glob) = <<>>
    /\ pdf_files' = SortedSeq(Glob)
    /\ ret' = <<1>>
    /\ pc' = "done"
    /\ UNCHANGED <<inputVars, argVars, fsVars, idx, pageVars, openHandles,
                   logVars, attempted, opened, fsAtStart, fsAtCall, rerun>>

\* pdf_files = sorted(glob); the for loop is entered
Scan ==
    /\ pc = "main"
    /\ inputDirExists
    /\ SortedSeq(Glob) # <<>>
    /\ pdf_files' = SortedSeq(Glob)
    /\ idx' = 1
    /\ pc' = "loop"
    /\ UNCHANGED <<inputVars, argVars, fsVars, ret, pageVars, openHandles,
                   logVars, attempted, opened, fsAtStart, fsAtCall, rerun>>

\* The for loop moves to the next path.
NextFile ==
    /\ idx' = idx + 1
    /\ pc' = "loop"

\* Variant: the exception ends the loop instead of the one conversion.
CatchAborts(detail) ==
    /\ errors' = Append(errors, cur)
    /\ raised' = detail
    /\ idx' = Len(pdf_files) + 1
    /\ pc' = "loop"

\* except Exception as error: print("[error] ..."); the loop goes on.
Catch(detail) ==
    /\ errors' = Append(errors, cur)
    /\ raised' = detail
    /\ NextFile

\* Variant: a failed conversion turns the exit status into 1.
LoopEndFailing ==
    /\ pc = "loop"
    /\ idx > Len(pdf_files)
    /\ ret' = IF errors = <<>> THEN <<0>> ELSE <<1>>
    /\ pc' = "done"
    /\ UNCHANGED <<inputVars, argVars, fsVars, pdf_files, idx, pageVars,
                   openHandles, logVars, attempted, opened, fsAtStart,
                   fsAtCall, rerun>>

\* The for loop is exhausted: return 0
LoopEnd ==
    /\ pc = "loop"
    /\ idx > Len(pdf_files)
    /\ ret' = <<0>>
    /\ pc' = "done"
    /\ UNCHANGED <<inputVars, argVars, fsVars, pdf_files, idx, pageVars,
                   openHandles, logVars, attempted, opened, fsAtStart,
                   fsAtCall, rerun>>

\* raise SystemExit(main()): the process ends, its transient state with it.
Exit ==
    /\ pc = "done"
    /\ pc' = "idle"
    /\ rerun' = (rerun \/ ret = <<0>>)
    /\ ret' = NoRet
    /\ pdf_files' = <<>>
    /\ idx' = 1
    /\ page_text_chunks' = <<>>
    /\ page_index' = 0
    /\ skipped' = <<>>
    /\ warned' = <<>>
    /\ converted' = <<>>
    /\ errors' = <<>>
    /\ raised' = NoStep
    /\ attempted' = <<>>
    /\ opened' = <<>>
    /\ overwrite' = FALSE
    /\ page_break' = FALSE
    /\ fsAtStart' = Snapshot
    /\ fsAtCall' = Snapshot
    /\ UNCHANGED <<inputVars, fsVars, openHandles>>

\* Between two runs somebody else writes a target.
ExternalWrite ==
    /\ pc = "idle"
    /\ \E t \in Targets :
        /\ outFiles[t] # ExternalContent
        /\ outFiles' = [outFiles EXCEPT ![t] = ExternalContent]
    /\ outDirExists' = TRUE
    /\ fsAtStart' = [dir |-> TRUE, files |-> outFiles']
    /\ fsAtCall' = [dir |-> TRUE, files |-> outFiles']
    /\ UNCHANGED <<inputVars, argVars, pc, ret, pdf_files, idx, pageVars,
                   openHandles, logVars, attempted, opened, rerun>>

----------------------------------------------------------------------------
(* extract_text_from_pdf *)

\* Variant: no existence check at all.
NeverSkip == FALSE

\* Variant: the overwrite flag is ignored.
SkipWhenExists == outFiles[target] # NoFile

\* if output_path.exists() and not overwrite
ShouldSkip == outFiles[target] # NoFile /\ ~overwrite

\* print("[skip] ..."); return
ExtractSkip ==
    /\ pc = "loop"
    /\ idx <= Len(pdf_files)
    /\ ShouldSkip
    /\ attempted' = Append(attempted, cur)
    /\ fsAtCall' = Snapshot
    /\ skipped' = Append(skipped, cur)
    /\ NextFile
    /\ UNCHANGED <<inputVars, argVars, fsVars, ret, pdf_files, pageVars,
                   openHandles, warned, converted, errors, raised, opened,
                   fsAtStart, rerun>>

\* Variant: the target is opened for writing before the document is read.
ExtractMkdirTruncate ==
    /\ pc = "loop"
    /\ idx <= Len(pdf_files)
    /\ ~ShouldSkip
    /\ attempted' = Append(attempted, cur)
    /\ fsAtCall' = Snapshot
    /\ outDirExists' = TRUE
    /\ outFiles' = [outFiles EXCEPT ![target] = <<>>]
    /\ page_text_chunks' = <<>>
    /\ page_index' = 0
    /\ pc' = "open"
    /\ UNCHANGED <<inputVars, argVars, ret, pdf_files, idx,
                   openHandles, logVars, opened, fsAtStart, rerun>>

\* output_path.parent.mkdir(parents=True, exist_ok=True); page_text_chunks = []
ExtractMkdir ==
    /\ pc = "loop"
    /\ idx <= Len(pdf_files)
    /\ ~ShouldSkip
    /\ attempted' = Append(attempted, cur)
    /\ fsAtCall' = Snapshot
    /\ outDirExists' = TRUE
    /\ page_text_chunks' = <<>>
    /\ page_index' = 0
    /\ pc' = "open"
    /\ UNCHANGED <<inputVars, argVars, outFiles, ret, pdf_files, idx,
                   openHandles, logVars, opened, fsAtStart, rerun>>

\* mkdir raises (the directory cannot be created)
ExtractMkdirFail ==
    /\ pc = "loop"
    /\ idx <= Len(pdf_files)
    /\ ~ShouldSkip
    /\ ~outDirExists
    /\ attempted' = Append(attempted, cur)
    /\ fsAtCall' = Snapshot
    /\ Catch("mkdir")
    /\ UNCHANGED <<inputVars, argVars, fsVars, ret, pdf_files, pageVars,
                   openHandles, skipped, warned, converted, opened, fsAtStart,
                   rerun>>

\* with fitz.open(pdf_path) as doc
OpenDoc ==
    /\ pc = "open"
    /\ opened' = Append(opened, cur)
    /\ openHandles' = openHandles \cup {cur}
    /\ pc' = "read"
    /\ UNCHANGED <<inputVars, argVars, fsVars, ret, pdf_files, idx, pageVars,
                   logVars, attempted, fsAtStart, fsAtCall, rerun>>

\* fitz.open raises (unreadable or malformed file): no handle exists
OpenFail ==
    /\ pc = "open"
    /\ opened' = Append(opened, cur)
    /\ Catch("open")
    /\ UNCHANGED <<inputVars, argVars, fsVars, ret, pdf_files, pageVars,
                   openHandles, skipped, warned, converted, attempted,
                   fsAtStart, fsAtCall, rerun>>

\* print("[warn] ...") for a page whose text strips to nothing
Warn(text, index) ==
    IF IsBlank(text) THEN warned' = Append(warned, <<cur, index>>)
    ELSE UNCHANGED warned

\* one turn of the page loop: get_text, the warning, append
ReadPage ==
    /\ pc = "read"
    /\ page_index < Len(pdfDir[cur])
    /\ LET text == pdfDir[cur][page_index + 1]
       IN  /\ Warn(text, page_index + 1)
           /\ page_text_chunks' = Append(page_text_chunks, text)
    /\ page_index' = page_index + 1
    /\ UNCHANGED <<inputVars, argVars, fsVars, pc, ret, pdf_files, idx,
                   openHandles, skipped, converted, errors, raised, attempted,
                   opened, fsAtStart, fsAtCall, rerun>>

\* The with block is left: the document is closed.
Release == openHandles' = openHandles \ {cur}

\* Variant: the document is not closed when a page raises.
ReadFailLeak ==
    /\ pc = "read"
    /\ page_index < Len(pdfDir[cur])
    /\ Catch("read")
    /\ UNCHANGED <<inputVars, argVars, fsVars, ret, pdf_files, pageVars,
                   openHandles, skipped, warned, converted, attempted, opened,
                   fsAtStart, fsAtCall, rerun>>

\* get_text raises on a page: the with block closes the document on the
\* way out and main catches the exception
ReadFail ==
    /\ pc = "read"
    /\ page_index < Len(pdfDir[cur])
    /\ Release
    /\ Catch("read")
    /\ UNCHANGED <<inputVars, argVars, fsVars, ret, pdf_files, pageVars,
                   skipped, warned, converted, attempted, opened, fsAtStart,
                   fsAtCall, rerun>>

\* the page loop ends and the with block is left
CloseDoc ==
    /\ pc = "read"
    /\ page_index = Len(pdfDir[cur])
    /\ Release
    /\ pc' = "write"
    /\ UNCHANGED <<inputVars, argVars, fsVars, ret, pdf_files, idx, pageVars,
                   logVars, attempted, opened, fsAtStart, fsAtCall, rerun>>

\* text_content, by insert_page_break
TextContent == Join(page_text_chunks, Separator(page_break))

\* Variant: the target is opened in append mode.
WriteTextAppend ==
    /\ pc = "write"
    /\ outFiles' = [outFiles EXCEPT ![target] =
                        IF @ = NoFile THEN TextContent ELSE @ \o TextContent]
    /\ converted' = Append(converted, cur)
    /\ NextFile
    /\ UNCHANGED <<inputVars, argVars, outDirExists, ret, pdf_files, pageVars,
                   openHandles, skipped, warned, errors, raised, attempted,
                   opened, fsAtStart, fsAtCall, rerun>>

\* output_path.write_text(text_content, encoding="utf-8"); print("[done] ...")
WriteText ==
    /\ pc = "write"
    /\ outFiles' = [outFiles EXCEPT ![target] = TextContent]
    /\ converted' = Append(converted, cur)
    /\ NextFile
    /\ UNCHANGED <<inputVars, argVars, outDirExists, ret, pdf_files, pageVars,
                   openHandles, skipped, warned, errors, raised, attempted,
                   opened, fsAtStart, fsAtCall, rerun>>

\* write_text raises while opening the target: nothing is touched
WriteFailOpen ==
    /\ pc = "write"
    /\ Catch("write")
    /\ UNCHANGED <<inputVars, argVars, fsVars, ret, pdf_files, pageVars,
                   openHandles, skipped, warned, converted, attempted, opened,
                   fsAtStart, fsAtCall, rerun>>

\* What a write that fails after open(mode="w") leaves at the target: the
\* file exists, truncated, holding the part of the text that got through:
\* nothing (always so when the text cannot be encoded) or, of the proper
\* prefixes, the longest.
PartialWrites ==
    { SubSeq(TextContent, 1, k) : k \in {0, Len(TextContent) - 1} \cap Nat }

\* write_text raises after the target was opened for writing
WriteFailTruncated ==
    /\ pc = "write"
    /\ \E part \in PartialWrites :
        outFiles' = [outFiles EXCEPT ![target] = part]
    /\ Catch("write")
    /\ UNCHANGED <<inputVars, argVars, outDirExists, ret, pdf_files, pageVars,
                   openHandles, skipped, warned, converted, attempted, opened,
                   fsAtStart, fsAtCall, rerun>>

----------------------------------------------------------------------------

Next ==
    \/ ParseArgs
    \/ DirNotFound
    \/ NoPdfFiles
    \/ Scan
    \/ ExtractSkip
    \/ ExtractMkdir
    \/ ExtractMkdirFail
    \/ OpenDoc
    \/ OpenFail
    \/ ReadPage
    \/ ReadFail
    \/ CloseDoc
    \/ WriteText
    \/ WriteFailOpen
    \/ WriteFailTruncated
    \/ LoopEnd
    \/ Exit
    \/ ExternalWrite

Spec == Init /\ [][Next]_vars

----------------------------------------------------------------------------
(* Vocabulary of the properties *)

\* A call of extract_text_from_pdf has just ended (by return or by the
\* except clause) and nothing has happened since.
CallEnded == pc \in {"loop", "done"} /\ idx > 1 /\ idx - 1 <= Len(pdf_files)

\* The source of that call, and its target.
prev == pdf_files[idx - 1]

prevTarget == OutputPath(prev)

\* The number of calls begun so far in this run.
Begun == IF pc \in {"open", "read", "write"} THEN idx ELSE idx - 1

\* The call that has just ended raised, at one of the given steps.
PrevFailed(steps) == prev \in Range(errors) /\ raised \in steps

Ascending(seq) ==
    \A a, b \in 1..Len(seq) : a < b => PathLess(seq[a], seq[b])

\* The text the pages of document n give under the run's page_break flag.
FreshText(n) == Join(pdfDir[n], Separator(page_break))

\* Positions of pdf_files that share their target with a later position.
Collisions ==
    { ab \in (1..Len(pdf_files)) \X (1..Len(pdf_files)) :
        /\ ab[1] < ab[2]
        /\ OutputPath(pdf_files[ab[1]]) = OutputPath(pdf_files[ab[2]])
        /\ \A c \in 1..Len(pdf_files) :
              c > ab[2] => OutputPath(pdf_files[c]) # OutputPath(pdf_files[ab[2]]) }

----------------------------------------------------------------------------
(* C1 *)

\* C1: every path of the scan is handed to the converter exactly once, one
\* at a time and in ascending sorted order (the calls made so far are a
\* prefix of the sorted scan, and all of it once main returns 0), and a
\* conversion that raised, at whatever step, is reported and does not keep
\* a later path from being attempted.
BatchOrder ==
    /\ pc \in {"loop", "open", "read", "write"} \/ ret = <<0>> =>
          /\ Range(pdf_files) = Glob
          /\ Len(pdf_files) = Cardinality(Glob)
          /\ Ascending(pdf_files)
    /\ Begun <= Len(pdf_files)
    /\ attempted = SubSeq(pdf_files, 1, Begun)
    /\ Range(errors) \subseteq Range(attempted)
    /\ pc = "done" /\ ret = <<0>> => attempted = pdf_files

\* Three paths, the first one raised, the last one was converted.
BatchOrderWitness ==
    /\ pc = "done"
    /\ ret = <<0>>
    /\ Len(pdf_files) = 3
    /\ pdf_files[1] \in Range(errors)
    /\ pdf_files[3] \in Range(converted)

----------------------------------------------------------------------------
(* C2 *)

\* C2: main returns 1 exactly when the input directory is missing or holds
\* no "*.pdf" entry; otherwise it returns 0, after every path was
\* attempted, however many conversions failed.
ExitCode ==
    pc = "done" =>
        /\ ret \in {<<0>>, <<1>>}
        /\ ret = <<1>> <=> (~inputDirExists \/ Glob = {})
        /\ ret = <<0>> => Range(attempted) = Glob

\* Every conversion of a batch of several files failed; main returned 0.
ExitCodeWitness ==
    /\ pc = "done"
    /\ ret = <<0>>
    /\ Len(pdf_files) >= 2
    /\ Range(errors) = Range(pdf_files)

----------------------------------------------------------------------------
(* C3 *)

\* C3: when main returns 1 no conversion was attempted and the output
\* directory and every file in it are as they were when main began.
PreflightFrame ==
    pc = "done" /\ ret = <<1>> =>
        /\ Snapshot = fsAtStart
        /\ attempted = <<>>
        /\ opened = <<>>

\* The input directory exists, holds an entry but no "*.pdf" one, and the
\* output directory still does not exist.
PreflightFrameWitness ==
    /\ pc = "done"
    /\ ret = <<1>>
    /\ inputDirExists
    /\ dirEntries # {}
    /\ ~outDirExists

----------------------------------------------------------------------------
(* C4 *)

\* C4: a call that finds its target while overwrite is off changes nothing
\* (the output directory and its files are as before the call), opens no
\* document and raises nothing; so a run without --overwrite leaves every
\* file that existed when it began with the content it had.
SkipNoOp ==
    /\ \A n \in Range(skipped) :
          /\ n \notin Range(opened)
          /\ n \notin Range(errors)
          /\ n \notin Range(converted)
    /\ CallEnded /\ prev \in Range(skipped) => Snapshot = fsAtCall
    /\ ~overwrite =>
          \A t \in Targets :
              fsAtStart.files[t] # NoFile => outFiles[t] = fsAtStart.files[t]

\* A second run without --overwrite over a directory of several files, all
\* of them skipped, one of the outputs being what the first run wrote.
SkipNoOpWitness ==
    /\ rerun
    /\ pc = "done"
    /\ ~overwrite
    /\ Len(pdf_files) >= 2
    /\ Range(skipped) = Range(pdf_files)
    /\ \E n \in Range(pdf_files) :
          outFiles[OutputPath(n)] \notin {NoFile, ExternalContent, <<>>}

----------------------------------------------------------------------------
(* C5 *)

\* C5: with overwrite set, when a conversion has completed the target
\* holds exactly the join of the document's page texts, whatever it held
\* before the call.
OverwriteFresh ==
    CallEnded /\ overwrite /\ prev \in Range(converted) =>
        outFiles[prevTarget] = FreshText(prev)

\* The target held content written from outside, after an earlier run, and
\* now holds a different, freshly extracted text of two pages.
OverwriteFreshWitness ==
    /\ CallEnded
    /\ overwrite
    /\ rerun
    /\ prev \in Range(converted)
    /\ fsAtCall.files[prevTarget] = ExternalContent
    /\ Len(pdfDir[prev]) >= 2
    /\ outFiles[prevTarget] # ExternalContent

----------------------------------------------------------------------------
(* C6 *)

RECURSIVE Offset(_, _, _)
\* Where chunk k begins in a text made of the chunks of doc, each but the
\* last followed by sep: the lengths of the k - 1 chunks and separators
\* before it.
Offset(doc, sep, k) ==
    IF k <= 1 THEN 0
    ELSE Offset(doc, sep, k - 1) + Len(doc[k - 1]) + Len(sep)

\* C6: the text written for a document of N pages is its N page texts in
\* page order, each but the last followed by the configured separator and
\* nothing else: chunk k stands at the offset left by the k - 1 chunks and
\* separators before it, a separator stands between two chunks, and the
\* text ends with the last chunk.  A blank page is in the text like any
\* other, and is what a warning is printed for; the conversion completes.
JoinShape ==
    CallEnded /\ prev \in Range(converted) =>
        LET doc == pdfDir[prev]
            N == Len(doc)
            sep == IF page_break THEN <<"\n", "\n", "-", "-", "-", "\n", "\n">>
                   ELSE <<"\n">>
            text == outFiles[prevTarget]
        IN  /\ Len(text) = IF N = 0 THEN 0 ELSE Offset(doc, sep, N) + Len(doc[N])
            /\ \A k \in 1..N :
                  SubSeq(text, Offset(doc, sep, k) + 1,
                         Offset(doc, sep, k) + Len(doc[k])) = doc[k]
            /\ \A k \in 1..(N - 1) :
                  SubSeq(text, Offset(doc, sep, k) + Len(doc[k]) + 1,
                         Offset(doc, sep, k + 1)) = sep
            /\ \A k \in 1..N :
                  <<prev, k>> \in Range(warned) <=> IsBlank(doc[k])
            /\ prev \notin Range(errors)

\* Three pages, the middle one empty, joined with the page-break marker:
\* two separators, one right after the other.
JoinShapeWitness ==
    /\ CallEnded
    /\ prev \in Range(converted)
    /\ page_break
    /\ Len(pdfDir[prev]) = 3
    /\ pdfDir[prev][1] = <<"H">>
    /\ pdfDir[prev][2] = <<>>
    /\ pdfDir[prev][3] = <<" ">>
    /\ <<prev, 2>> \in Range(warned)
    /\ Len(outFiles[prevTarget]) = 16

----------------------------------------------------------------------------
(* C7 *)

\* C7: a conversion that raised, at whatever step, has produced no output
\* file: a target that was absent when the call began is absent when the
\* call has ended (so that a later run without --overwrite does not skip
\* the file).
FailedLeavesNoOutput ==
    CallEnded /\ prev \in Range(errors) /\ fsAtCall.files[prevTarget] = NoFile =>
        outFiles[prevTarget] = NoFile

----------------------------------------------------------------------------
(* C8 *)

\* C8: at most one document is open at any point: the one of the call in
\* progress while its pages are read, none otherwise; in particular none
\* when the loop is about to take the next file, whether the previous
\* call returned or raised.
OneHandle ==
    /\ Cardinality(openHandles) <= 1
    /\ pc = "read" => openHandles = {cur}
    /\ pc # "read" => openHandles = {}

\* The document of the first file raised on a page while it was open; the
\* second file's document is now the one that is open.
OneHandleWitness ==
    /\ pc = "read"
    /\ idx = 2
    /\ errors = <<pdf_files[1]>>
    /\ opened = <<pdf_files[1], pdf_files[2]>>
    /\ openHandles = {pdf_files[2]}

----------------------------------------------------------------------------
(* C9 *)

\* C9 as stated: when two inputs of a batch share their target (absent
\* when the run began) and nothing raised, after the run the target holds
\* the content of the one processed last.
LastColliderWins ==
    pc = "done" /\ ret = <<0>> /\ errors = <<>> =>
        \A ab \in Collisions :
            LET t == OutputPath(pdf_files[ab[2]])
            IN  fsAtStart.files[t] = NoFile => outFiles[t] = FreshText(pdf_files[ab[2]])

\* C9, amended: a target is written only by a call whose source has the
\* target's stem; when two inputs of a batch share their target, with
\* --overwrite none of them is skipped and the target holds the content of
\* the last of them whenever that one was converted; without --overwrite,
\* once the earlier one was converted the later one is skipped and the
\* target holds the content of the earlier one.
CollisionOutcome ==
    /\ \A t \in Targets :
          outFiles[t] # fsAtStart.files[t] =>
              \E n \in Range(attempted) \ Range(skipped) : t = Stem(n) \o DotTxt
    /\ pc = "done" /\ ret = <<0>> =>
          \A ab \in Collisions :
              LET first == pdf_files[ab[1]]
                  last == pdf_files[ab[2]]
                  t == OutputPath(last)
              IN  /\ overwrite => first \notin Range(skipped) /\ last \notin Range(skipped)
                  /\ overwrite /\ last \in Range(converted) =>
                        outFiles[t] = FreshText(last)
                  /\ ~overwrite /\ first \in Range(converted) =>
                        /\ last \in Range(skipped)
                        /\ outFiles[t] = FreshText(first)

\* Without --overwrite: two inputs of different content share a target
\* that did not exist; the first was converted, the second skipped.
CollisionOutcomeWitness ==
    /\ pc = "done"
    /\ ret = <<0>>
    /\ ~overwrite
    /\ \E ab \in Collisions :
          /\ pdf_files[ab[1]] \in Range(converted)
          /\ pdf_files[ab[2]] \in Range(skipped)
          /\ fsAtStart.files[OutputPath(pdf_files[ab[2]])] = NoFile
          /\ FreshText(pdf_files[ab[1]]) # FreshText(pdf_files[ab[2]])

----------------------------------------------------------------------------
(* C10 *)

\* C10: no file of the output directory changes between the beginning of
\* a call and the end of its page loop, so a call that raised in fitz.open
\* or on a page leaves its target as it was: a target that existed keeps
\* its content, overwrite set or not, and an absent one stays absent.
WriteAfterRead ==
    /\ pc \in {"open", "read"} => outFiles = fsAtCall.files
    /\ CallEnded /\ PrevFailed({"open", "read"}) => outFiles = fsAtCall.files

\* With --overwrite, a document of two pages raised on its second page;
\* its target existed and still holds what it held.
WriteAfterReadWitness ==
    /\ CallEnded
    /\ overwrite
    /\ PrevFailed({"read"})
    /\ page_index = 1
    /\ fsAtCall.files[prevTarget] # NoFile
    /\ outFiles[prevTarget] = fsAtCall.files[prevTarget]

====
